---------------------------- MODULE Spec2Model ----------------------------
(***************************************************************************)
(* A3C training program of "Reinforcement Learning/Algorithms/11_A3C_v2.py" *)
(* as a state machine: the orchestrator (__main__), the worker processes    *)
(* (Agent.run), the shared episode counter (mp.Value with its lock) and the *)
(* trajectory buffer and return computation of ActorCritic.                 *)
(*                                                                         *)
(* Numbers that are floats in the program (returns, value estimates) are    *)
(* fixed-point integers in units of 1/Scale; a product with gamma is        *)
(* rounded down to that precision.                                          *)
(***************************************************************************)
EXTENDS Integers, Sequences, FiniteSets, TLC

\* ------------------------------------------------------------- bounds
\* mp.cpu_count() is at most MaxWorkers.
MaxWorkers == 2
\* N_GAMES (4000 in the program) is drawn from 1..MaxGames.
MaxGames == 2
\* The environment's time limit (500 for CartPole-v1) is drawn from 1..MaxEpLen.
MaxEpLen == 6
\* With n workers, (n - 1)^2 * N_GAMES * time limit is at most MaxShared.
MaxShared == 4
\* In the runs under fair scheduling, cpu_count * N_GAMES * time limit is at
\* most MaxFairWork.
MaxFairWork == 4
\* Calls on one ActorCritic alone: at most MaxBuf remember calls between
\* clears, observations from 0..MaxObs, parameters from 0..MaxParam.
MaxBuf == 3
MaxObs == 1
MaxParam == 1

\* ------------------------------------------------- program constants
T_MAX == 5
n_actions == 2
\* gamma = 0.99 = GammaNum / GammaDen
GammaNum == 99
GammaDen == 100

Scale == 10^6

Workers == 1..MaxWorkers
Actions == 0..(n_actions - 1)
NoOwner == 0

\* the values of a .grad slot: None, a zeroed tensor, or the gradient of a
\* loss computed by worker w
NoGrad == <<"none", 0>>
ZeroedGrad == <<"zero", 0>>
GradOf(w) == <<"grad", w>>

VARIABLES
    \* configuration, fixed at start-up
    cpu_count,          \* mp.cpu_count(): the number of workers
    N_GAMES,            \* the counter limit
    max_episode_steps,  \* the environment's time limit
    \* shared memory
    global_ep,          \* mp.Value('i', 0): the shared episode counter
    ep_lock,            \* owner of the counter's lock, NoOwner when free
    global_params,      \* shared parameters: number of updates applied in place
    exp_avg,            \* shared moment accumulators: number of updates folded in
    \* orchestrator
    main_pc, main_i,
    \* per worker process
    pc, t_step, done, score, state, env_t, mem, loss,
    local_params, local_grad, global_grad, opt_step,
    ep_read, printed, rewards,
    \* history variables (not program state)
    call,               \* the last call made on an ActorCritic alone
    n_remember,         \* remember calls since the last clear_memory
    episodes,           \* episodes started by each worker
    increments,         \* counter increments completed by each worker
    n_buffered,         \* transitions each worker has put into its buffer
    n_used,             \* transitions each worker has computed a loss over
    applied,            \* the gradient each worker's last optimizer step used
    own_count           \* the value a worker's increment wrote, until its report

cfgvars == <<cpu_count, N_GAMES, max_episode_steps>>
shared == <<global_ep, ep_lock, global_params, exp_avg>>
mainvars == <<main_pc, main_i>>
envvars == <<done, score, state, env_t>>
netvars == <<local_params, local_grad, global_grad, opt_step>>
hist == <<n_buffered, n_used, applied, own_count>>
ghost == <<call, n_remember, episodes, increments, hist>>
vars == <<cfgvars, shared, mainvars, pc, t_step, envvars, mem, loss, netvars,
          ep_read, printed, rewards, ghost>>

\* ---------------------------------------------------- ActorCritic
\* __init__: the four accumulators start empty.
EmptyMemory == [states |-> <<>>, actions |-> <<>>, rewards |-> <<>>, next_states |-> <<>>]

remember(m, s, a, r, ns) ==
    [states      |-> Append(m.states, s),
     actions     |-> Append(m.actions, a),
     rewards     |-> Append(m.rewards, r),
     next_states |-> Append(m.next_states, ns)]

\* clear_memory that leaves next_states as it was
clear_memory_Partial(m) ==
    [m EXCEPT !.states = <<>>, !.actions = <<>>, !.rewards = <<>>]

clear_memory(m) ==
    [m EXCEPT !.states = <<>>, !.actions = <<>>, !.rewards = <<>>, !.next_states = <<>>]

\* The value head of forward(): a fixed stand-in for the network, a function of
\* the parameters and the observation taking the finite values -1, 0, 1.
forward_v(params, s) == (((params + s) % 3) - 1) * Scale

int(b) == IF b THEN 1 ELSE 0

Reverse(s) == [i \in 1..Len(s) |-> s[Len(s) + 1 - i]]

\* gamma * R
gamma_times(R) == (GammaNum * R) \div GammaDen

\* The loop of calc_R over self.rewards[::-1].
RECURSIVE scan_R(_, _, _)
scan_R(R, rs, batch_return) ==
    IF rs = <<>> THEN batch_return
    ELSE LET R1 == Head(rs) * Scale + gamma_times(R)
         IN  scan_R(R1, Tail(rs), Append(batch_return, R1))

\* bootstrap without the (1 - int(done)) factor
bootstrap_IgnoreDone(m, params, dn) ==
    LET v_next == [i \in 1..Len(m.next_states) |-> forward_v(params, m.next_states[i])]
    IN  v_next[Len(v_next)]

\* The bootstrap value of calc_R: R = v_next[-1] * (1 - int(done)).
bootstrap(m, params, dn) ==
    LET v_next == [i \in 1..Len(m.next_states) |-> forward_v(params, m.next_states[i])]
    IN  v_next[Len(v_next)] * (1 - int(dn))

\* calc_R without batch_return.reverse()
calc_R_NoReverse(m, params, dn) ==
    scan_R(bootstrap(m, params, dn), Reverse(m.rewards), <<>>)

calc_R(m, params, dn) ==
    Reverse(scan_R(bootstrap(m, params, dn), Reverse(m.rewards), <<>>))

\* ---------------------------------------------------- orchestrator
Configs ==
    {c \in [cpu_count : 1..MaxWorkers, N_GAMES : 1..MaxGames,
            max_episode_steps : 1..MaxEpLen] :
        (c.cpu_count - 1)^2 * c.N_GAMES * c.max_episode_steps <= MaxShared}

\* The state once __main__ has built the shared objects and the Agent list.
InitWith(c) ==
    /\ cpu_count = c.cpu_count
    /\ N_GAMES = c.N_GAMES
    /\ max_episode_steps = c.max_episode_steps
    /\ global_ep = 0
    /\ ep_lock = NoOwner
    /\ global_params = 0
    /\ exp_avg = 0
    /\ main_pc = "start"
    /\ main_i = 1
    /\ pc = [w \in Workers |-> IF w <= c.cpu_count THEN "unstarted" ELSE "absent"]
    /\ t_step = [w \in Workers |-> 1]
    /\ done = [w \in Workers |-> FALSE]
    /\ score = [w \in Workers |-> 0]
    /\ state = [w \in Workers |-> 0]
    /\ env_t = [w \in Workers |-> 0]
    /\ mem = [w \in Workers |-> EmptyMemory]
    /\ loss = [w \in Workers |-> <<>>]
    /\ local_params = [w \in Workers |-> 0 - w]
    /\ local_grad = [w \in Workers |-> NoGrad]
    /\ global_grad = [w \in Workers |-> NoGrad]
    /\ opt_step = [w \in Workers |-> 0]
    /\ ep_read = [w \in Workers |-> 0]
    /\ printed = [w \in Workers |-> 0]
    /\ rewards = [w \in Workers |-> <<>>]
    /\ call = [op |-> "none"]
    /\ n_remember = 0
    /\ episodes = [w \in Workers |-> 0]
    /\ increments = [w \in Workers |-> 0]
    /\ n_buffered = [w \in Workers |-> 0]
    /\ n_used = [w \in Workers |-> 0]
    /\ applied = [w \in Workers |-> NoGrad]
    /\ own_count = [w \in Workers |-> 0]

Init == \E c \in Configs : InitWith(c)

\* [w.start() for w in workers]
Start ==
    /\ main_pc = "start"
    /\ IF main_i <= cpu_count
       THEN /\ pc' = [pc EXCEPT ![main_i] = "while"]
            /\ main_i' = main_i + 1
            /\ UNCHANGED main_pc
       ELSE /\ main_pc' = "join"
            /\ main_i' = 1
            /\ UNCHANGED pc
    /\ UNCHANGED <<cfgvars, shared, t_step, envvars, mem, loss, netvars,
                   ep_read, printed, rewards, ghost>>

\* join that does not wait for the worker to exit
Join_NoWait ==
    /\ main_pc = "join"
    /\ IF main_i <= cpu_count
       THEN /\ main_i' = main_i + 1
            /\ UNCHANGED main_pc
       ELSE /\ main_pc' = "done"
            /\ UNCHANGED main_i
    /\ UNCHANGED <<cfgvars, shared, pc, t_step, envvars, mem, loss, netvars,
                   ep_read, printed, rewards, ghost>>

\* [w.join() for w in workers]; join returns once the process has exited,
\* normally or by an exception
Join ==
    /\ main_pc = "join"
    /\ IF main_i <= cpu_count
       THEN /\ pc[main_i] \in {"terminated", "failed"}
            /\ main_i' = main_i + 1
            /\ UNCHANGED main_pc
       ELSE /\ main_pc' = "done"
            /\ UNCHANGED main_i
    /\ UNCHANGED <<cfgvars, shared, pc, t_step, envvars, mem, loss, netvars,
                   ep_read, printed, rewards, ghost>>

\* ---------------------------------------------------- mp.Value
\* Synchronized.value (getter and setter) and get_lock() take the counter's
\* re-entrant lock: they proceed when it is free or held by the caller.
lock_free_for(w) == ep_lock \in {NoOwner, w}

\* ---------------------------------------------------- environment
\* gym's CartPole: the observation stands for the number of steps taken in the
\* episode, every step pays reward 1, and the episode may end at any step and
\* ends at the time limit.
obs(t) == t
step_reward == 1
may_end(t) == IF t >= max_episode_steps THEN {TRUE} ELSE BOOLEAN

\* ---------------------------------------------------- Agent.run
\* the loop test written <= N_GAMES
WhileTest_Inclusive(w) ==
    /\ pc[w] = "while"
    /\ lock_free_for(w)
    /\ IF global_ep <= N_GAMES
       THEN /\ done' = [done EXCEPT ![w] = FALSE]
            /\ env_t' = [env_t EXCEPT ![w] = 0]
            /\ state' = [state EXCEPT ![w] = obs(0)]
            /\ score' = [score EXCEPT ![w] = 0]
            /\ mem' = [mem EXCEPT ![w] = clear_memory(mem[w])]
            /\ episodes' = [episodes EXCEPT ![w] = @ + 1]
            /\ pc' = [pc EXCEPT ![w] = "step"]
       ELSE /\ pc' = [pc EXCEPT ![w] = "plot"]
            /\ UNCHANGED <<envvars, mem, episodes>>
    /\ UNCHANGED <<cfgvars, shared, mainvars, t_step, loss, netvars,
                   ep_read, printed, rewards, call, n_remember, increments, hist>>

\* line 151, and lines 152-155 when the loop is entered
WhileTest(w) ==
    /\ pc[w] = "while"
    /\ lock_free_for(w)
    /\ IF global_ep < N_GAMES
       THEN /\ done' = [done EXCEPT ![w] = FALSE]
            /\ env_t' = [env_t EXCEPT ![w] = 0]
            /\ state' = [state EXCEPT ![w] = obs(0)]
            /\ score' = [score EXCEPT ![w] = 0]
            /\ mem' = [mem EXCEPT ![w] = clear_memory(mem[w])]
            /\ episodes' = [episodes EXCEPT ![w] = @ + 1]
            /\ pc' = [pc EXCEPT ![w] = "step"]
       ELSE /\ pc' = [pc EXCEPT ![w] = "plot"]
            /\ UNCHANGED <<envvars, mem, episodes>>
    /\ UNCHANGED <<cfgvars, shared, mainvars, t_step, loss, netvars,
                   ep_read, printed, rewards, call, n_remember, increments, hist>>

\* a synchronization point every T_MAX + 1 steps
Step_SyncLate(w) ==
    /\ pc[w] = "step"
    /\ ~done[w]
    /\ \E action \in Actions, d \in may_end(env_t[w] + 1) :
          LET next_state == obs(env_t[w] + 1)
              sync == (t_step[w] % (T_MAX + 1) = 0) \/ d
          IN  /\ env_t' = [env_t EXCEPT ![w] = @ + 1]
              /\ done' = [done EXCEPT ![w] = d]
              /\ score' = [score EXCEPT ![w] = @ + step_reward]
              /\ mem' = [mem EXCEPT ![w] =
                            remember(@, state[w], action, step_reward, next_state)]
              /\ n_buffered' = [n_buffered EXCEPT ![w] = @ + 1]
              /\ IF sync
                 THEN /\ pc' = [pc EXCEPT ![w] = "calc_loss"]
                      /\ UNCHANGED <<t_step, state>>
                 ELSE /\ t_step' = [t_step EXCEPT ![w] = @ + 1]
                      /\ state' = [state EXCEPT ![w] = next_state]
                      /\ UNCHANGED pc
    /\ UNCHANGED <<cfgvars, shared, mainvars, loss, netvars,
                   ep_read, printed, rewards, call, n_remember, episodes,
                   increments, n_used, applied, own_count>>

\* lines 157-165, and lines 184-185 when no synchronization point is due
Step(w) ==
    /\ pc[w] = "step"
    /\ ~done[w]
    /\ \E action \in Actions, d \in may_end(env_t[w] + 1) :
          LET next_state == obs(env_t[w] + 1)
              sync == (t_step[w] % T_MAX = 0) \/ d
          IN  /\ env_t' = [env_t EXCEPT ![w] = @ + 1]
              /\ done' = [done EXCEPT ![w] = d]
              /\ score' = [score EXCEPT ![w] = @ + step_reward]
              /\ mem' = [mem EXCEPT ![w] =
                            remember(@, state[w], action, step_reward, next_state)]
              /\ n_buffered' = [n_buffered EXCEPT ![w] = @ + 1]
              /\ IF sync
                 THEN /\ pc' = [pc EXCEPT ![w] = "calc_loss"]
                      /\ UNCHANGED <<t_step, state>>
                 ELSE /\ t_step' = [t_step EXCEPT ![w] = @ + 1]
                      /\ state' = [state EXCEPT ![w] = next_state]
                      /\ UNCHANGED pc
    /\ UNCHANGED <<cfgvars, shared, mainvars, loss, netvars,
                   ep_read, printed, rewards, call, n_remember, episodes,
                   increments, n_used, applied, own_count>>

\* line 166: the loss is a function of the returns of the buffered segment
CalcLoss(w) ==
    /\ pc[w] = "calc_loss"
    /\ loss' = [loss EXCEPT ![w] = calc_R(mem[w], local_params[w], done[w])]
    /\ n_used' = [n_used EXCEPT ![w] = @ + Len(loss'[w])]
    /\ pc' = [pc EXCEPT ![w] = "zero_grad"]
    /\ UNCHANGED <<cfgvars, shared, mainvars, t_step, envvars, mem, netvars,
                   ep_read, printed, rewards, call, n_remember, episodes,
                   increments, n_buffered, applied, own_count>>

\* line 167: zeroes, in place, the gradients attached to the shared parameters
\* in this process; after the first push they are the local model's gradients
ZeroGrad(w) ==
    /\ pc[w] = "zero_grad"
    /\ IF global_grad[w] = NoGrad
       THEN UNCHANGED <<global_grad, local_grad>>
       ELSE /\ global_grad' = [global_grad EXCEPT ![w] = ZeroedGrad]
            /\ local_grad' = [local_grad EXCEPT ![w] = ZeroedGrad]
    /\ pc' = [pc EXCEPT ![w] = "backward"]
    /\ UNCHANGED <<cfgvars, shared, mainvars, t_step, envvars, mem, loss,
                   local_params, opt_step, ep_read, printed, rewards, ghost>>

\* line 168
Backward(w) ==
    /\ pc[w] = "backward"
    /\ local_grad' = [local_grad EXCEPT ![w] = GradOf(w)]
    /\ global_grad' = [global_grad EXCEPT ![w] =
                          IF @ = NoGrad THEN @ ELSE GradOf(w)]
    /\ pc' = [pc EXCEPT ![w] = "push"]
    /\ UNCHANGED <<cfgvars, shared, mainvars, t_step, envvars, mem, loss,
                   local_params, opt_step, ep_read, printed, rewards, ghost>>

\* a push into one gradient slot that all worker processes see
Push_SharedSlot(w) ==
    /\ pc[w] = "push"
    /\ global_grad' = [v \in Workers |-> local_grad[w]]
    /\ pc' = [pc EXCEPT ![w] = "opt_step"]
    /\ UNCHANGED <<cfgvars, shared, mainvars, t_step, envvars, mem, loss,
                   local_params, local_grad, opt_step, ep_read, printed, rewards,
                   ghost>>

\* lines 171-173; _grad is an attribute of the parameter object of this
\* process, only the parameter's data is in shared memory (line 210)
Push(w) ==
    /\ pc[w] = "push"
    /\ global_grad' = [global_grad EXCEPT ![w] = local_grad[w]]
    /\ pc' = [pc EXCEPT ![w] = "opt_step"]
    /\ UNCHANGED <<cfgvars, shared, mainvars, t_step, envvars, mem, loss,
                   local_params, local_grad, opt_step, ep_read, printed, rewards,
                   ghost>>

\* an optimizer step after which the shared parameters are not pulled
OptStep_NoPull(w) ==
    /\ pc[w] = "opt_step"
    /\ global_params' = global_params + 1
    /\ exp_avg' = exp_avg + 1
    /\ opt_step' = [opt_step EXCEPT ![w] = @ + 1]
    /\ applied' = [applied EXCEPT ![w] = global_grad[w]]
    /\ pc' = [pc EXCEPT ![w] = "clear"]
    /\ UNCHANGED <<cfgvars, global_ep, ep_lock, mainvars, t_step, envvars, mem,
                   loss, local_params, local_grad, global_grad, ep_read, printed,
                   rewards, call, n_remember, episodes, increments, n_buffered,
                   n_used, own_count>>

\* line 176
OptStep(w) ==
    /\ pc[w] = "opt_step"
    /\ global_params' = global_params + 1
    /\ exp_avg' = exp_avg + 1
    /\ opt_step' = [opt_step EXCEPT ![w] = @ + 1]
    /\ applied' = [applied EXCEPT ![w] = global_grad[w]]
    /\ pc' = [pc EXCEPT ![w] = "pull"]
    /\ UNCHANGED <<cfgvars, global_ep, ep_lock, mainvars, t_step, envvars, mem,
                   loss, local_params, local_grad, global_grad, ep_read, printed,
                   rewards, call, n_remember, episodes, increments, n_buffered,
                   n_used, own_count>>

\* line 179
Pull(w) ==
    /\ pc[w] = "pull"
    /\ local_params' = [local_params EXCEPT ![w] = global_params]
    /\ pc' = [pc EXCEPT ![w] = "clear"]
    /\ UNCHANGED <<cfgvars, shared, mainvars, t_step, envvars, mem, loss,
                   local_grad, global_grad, opt_step, ep_read, printed, rewards,
                   ghost>>

\* an episode end that skips the increment once the limit is reached
SyncEnd_CheckLimit(w) ==
    /\ pc[w] = "clear"
    /\ mem' = [mem EXCEPT ![w] = clear_memory(@)]
    /\ loss' = [loss EXCEPT ![w] = <<>>]
    /\ t_step' = [t_step EXCEPT ![w] = @ + 1]
    /\ state' = [state EXCEPT ![w] = obs(env_t[w])]
    /\ pc' = [pc EXCEPT ![w] = IF done[w]
                               THEN (IF global_ep >= N_GAMES THEN "plot" ELSE "acquire")
                               ELSE "step"]
    /\ UNCHANGED <<cfgvars, shared, mainvars, done, score, env_t, netvars,
                   ep_read, printed, rewards, ghost>>

\* a synchronization point that keeps the buffer
SyncEnd_NoClear(w) ==
    /\ pc[w] = "clear"
    /\ loss' = [loss EXCEPT ![w] = <<>>]
    /\ t_step' = [t_step EXCEPT ![w] = @ + 1]
    /\ state' = [state EXCEPT ![w] = obs(env_t[w])]
    /\ pc' = [pc EXCEPT ![w] = IF done[w] THEN "acquire" ELSE "step"]
    /\ UNCHANGED <<cfgvars, shared, mainvars, done, score, env_t, mem, netvars,
                   ep_read, printed, rewards, ghost>>

\* lines 182-185; the loss is not read again
SyncEnd(w) ==
    /\ pc[w] = "clear"
    /\ mem' = [mem EXCEPT ![w] = clear_memory(@)]
    /\ loss' = [loss EXCEPT ![w] = <<>>]
    /\ t_step' = [t_step EXCEPT ![w] = @ + 1]
    /\ state' = [state EXCEPT ![w] = obs(env_t[w])]
    /\ pc' = [pc EXCEPT ![w] = IF done[w] THEN "acquire" ELSE "step"]
    /\ UNCHANGED <<cfgvars, shared, mainvars, done, score, env_t, netvars,
                   ep_read, printed, rewards, ghost>>

\* a with block that does not take the lock
Acquire_NoLock(w) ==
    /\ pc[w] = "acquire"
    /\ pc' = [pc EXCEPT ![w] = "incr_read"]
    /\ UNCHANGED <<cfgvars, shared, mainvars, t_step,
                   envvars, mem, loss, netvars, ep_read, printed, rewards, ghost>>

\* a lock that is granted while another worker holds it
Acquire_Unguarded(w) ==
    /\ pc[w] = "acquire"
    /\ ep_lock' = w
    /\ pc' = [pc EXCEPT ![w] = "incr_read"]
    /\ UNCHANGED <<cfgvars, global_ep, global_params, exp_avg, mainvars, t_step,
                   envvars, mem, loss, netvars, ep_read, printed, rewards, ghost>>

\* line 187: with self.episode_idx.get_lock()
Acquire(w) ==
    /\ pc[w] = "acquire"
    /\ ep_lock = NoOwner
    /\ ep_lock' = w
    /\ pc' = [pc EXCEPT ![w] = "incr_read"]
    /\ UNCHANGED <<cfgvars, global_ep, global_params, exp_avg, mainvars, t_step,
                   envvars, mem, loss, netvars, ep_read, printed, rewards, ghost>>

\* line 188, the read of self.episode_idx.value += 1
IncrRead(w) ==
    /\ pc[w] = "incr_read"
    /\ lock_free_for(w)
    /\ ep_read' = [ep_read EXCEPT ![w] = global_ep]
    /\ pc' = [pc EXCEPT ![w] = "incr_write"]
    /\ UNCHANGED <<cfgvars, shared, mainvars, t_step, envvars, mem, loss,
                   netvars, printed, rewards, ghost>>

\* an increment by 2
IncrWrite_Two(w) ==
    /\ pc[w] = "incr_write"
    /\ lock_free_for(w)
    /\ global_ep' = ep_read[w] + 2
    /\ ep_read' = [ep_read EXCEPT ![w] = 0]
    /\ increments' = [increments EXCEPT ![w] = @ + 1]
    /\ own_count' = [own_count EXCEPT ![w] = global_ep']
    /\ pc' = [pc EXCEPT ![w] = "release"]
    /\ UNCHANGED <<cfgvars, ep_lock, global_params, exp_avg, mainvars, t_step,
                   envvars, mem, loss, netvars, printed, rewards,
                   call, n_remember, episodes, n_buffered, n_used, applied>>

\* line 188, the write of self.episode_idx.value += 1; the value read is a
\* temporary, dropped here
IncrWrite(w) ==
    /\ pc[w] = "incr_write"
    /\ lock_free_for(w)
    /\ global_ep' = ep_read[w] + 1
    /\ ep_read' = [ep_read EXCEPT ![w] = 0]
    /\ increments' = [increments EXCEPT ![w] = @ + 1]
    /\ own_count' = [own_count EXCEPT ![w] = global_ep']
    /\ pc' = [pc EXCEPT ![w] = "release"]
    /\ UNCHANGED <<cfgvars, ep_lock, global_params, exp_avg, mainvars, t_step,
                   envvars, mem, loss, netvars, printed, rewards,
                   call, n_remember, episodes, n_buffered, n_used, applied>>

\* a with block that leaves the lock held
Release_Forget(w) ==
    /\ pc[w] = "release"
    /\ pc' = [pc EXCEPT ![w] = "print"]
    /\ UNCHANGED <<cfgvars, shared, mainvars, t_step,
                   envvars, mem, loss, netvars, ep_read, printed, rewards, ghost>>

\* the end of the with block of line 187
Release(w) ==
    /\ pc[w] = "release"
    /\ ep_lock' = IF ep_lock = w THEN NoOwner ELSE ep_lock
    /\ pc' = [pc EXCEPT ![w] = "print"]
    /\ UNCHANGED <<cfgvars, global_ep, global_params, exp_avg, mainvars, t_step,
                   envvars, mem, loss, netvars, ep_read, printed, rewards, ghost>>

\* an append to one reward log that all worker processes see
Report_SharedLog(w) ==
    /\ pc[w] = "print"
    /\ lock_free_for(w)
    /\ printed' = [printed EXCEPT ![w] = global_ep]
    /\ rewards' = [v \in Workers |-> Append(rewards[v], score[w])]
    /\ own_count' = [own_count EXCEPT ![w] = 0]
    /\ pc' = [pc EXCEPT ![w] = "while"]
    /\ UNCHANGED <<cfgvars, shared, mainvars, t_step, envvars, mem, loss,
                   netvars, ep_read, call, n_remember, episodes, increments,
                   n_buffered, n_used, applied>>

\* lines 190-191; rewards is the module-level list of line 16, of which every
\* worker process has its own
Report(w) ==
    /\ pc[w] = "print"
    /\ lock_free_for(w)
    /\ printed' = [printed EXCEPT ![w] = global_ep]
    /\ rewards' = [rewards EXCEPT ![w] = Append(@, score[w])]
    /\ own_count' = [own_count EXCEPT ![w] = 0]
    /\ pc' = [pc EXCEPT ![w] = "while"]
    /\ UNCHANGED <<cfgvars, shared, mainvars, t_step, envvars, mem, loss,
                   netvars, ep_read, call, n_remember, episodes, increments,
                   n_buffered, n_used, applied>>

\* lines 194-199 (plt.show() returns), and the process exits
Plot(w) ==
    /\ pc[w] = "plot"
    /\ pc' = [pc EXCEPT ![w] = "terminated"]
    /\ UNCHANGED <<cfgvars, shared, mainvars, t_step, envvars, mem, loss,
                   netvars, ep_read, printed, rewards, ghost>>

Worker(w) ==
    \/ WhileTest(w) \/ Step(w)
    \/ CalcLoss(w) \/ ZeroGrad(w) \/ Backward(w) \/ Push(w)
    \/ OptStep(w) \/ Pull(w) \/ SyncEnd(w)
    \/ Acquire(w) \/ IncrRead(w) \/ IncrWrite(w) \/ Release(w)
    \/ Report(w) \/ Plot(w)

Next == Start \/ Join \/ \E w \in Workers : Worker(w)

Spec == Init /\ [][Next]_vars

\* Every runnable process is eventually scheduled, and so is the orchestrator.
Fairness ==
    /\ WF_vars(Start)
    /\ WF_vars(Join)
    /\ \A w \in Workers : WF_vars(Worker(w))

\* The runs under fair scheduling: cpu_count * N_GAMES * time limit is at most
\* MaxFairWork.
FairConfigs ==
    {c \in Configs : c.cpu_count * c.N_GAMES * c.max_episode_steps <= MaxFairWork}

InitFair == \E c \in FairConfigs : InitWith(c)

FairSpec == InitFair /\ [][Next]_vars /\ Fairness

\* ---------------------------------------------------- failures
\* The positions of the loop of lines 151-191.
LoopPcs ==
    {"while", "step", "calc_loss", "zero_grad", "backward", "push", "opt_step",
     "pull", "clear", "acquire", "incr_read", "incr_write", "release", "print"}

\* an exception inside the with block that leaves the lock held
Fail_HoldingLock(w) ==
    /\ pc[w] \in LoopPcs
    /\ \A v \in Workers : pc[v] # "failed"
    /\ pc' = [pc EXCEPT ![w] = "failed"]
    /\ t_step' = [t_step EXCEPT ![w] = 1]
    /\ done' = [done EXCEPT ![w] = FALSE]
    /\ score' = [score EXCEPT ![w] = 0]
    /\ state' = [state EXCEPT ![w] = 0]
    /\ env_t' = [env_t EXCEPT ![w] = 0]
    /\ mem' = [mem EXCEPT ![w] = EmptyMemory]
    /\ loss' = [loss EXCEPT ![w] = <<>>]
    /\ local_params' = [local_params EXCEPT ![w] = 0 - w]
    /\ local_grad' = [local_grad EXCEPT ![w] = NoGrad]
    /\ global_grad' = [global_grad EXCEPT ![w] = NoGrad]
    /\ opt_step' = [opt_step EXCEPT ![w] = 0]
    /\ ep_read' = [ep_read EXCEPT ![w] = 0]
    /\ rewards' = [rewards EXCEPT ![w] = <<>>]
    /\ UNCHANGED <<cfgvars, shared, mainvars, printed, ghost>>

\* An exception raised in the loop of run (lines 151-191) is not caught: it
\* leaves the with block of lines 187-188, which releases the lock, and ends
\* the process, whose memory is gone. One worker fails in a run.
Fail(w) ==
    /\ pc[w] \in LoopPcs
    /\ \A v \in Workers : pc[v] # "failed"
    /\ pc' = [pc EXCEPT ![w] = "failed"]
    /\ ep_lock' = IF ep_lock = w THEN NoOwner ELSE ep_lock
    /\ t_step' = [t_step EXCEPT ![w] = 1]
    /\ done' = [done EXCEPT ![w] = FALSE]
    /\ score' = [score EXCEPT ![w] = 0]
    /\ state' = [state EXCEPT ![w] = 0]
    /\ env_t' = [env_t EXCEPT ![w] = 0]
    /\ mem' = [mem EXCEPT ![w] = EmptyMemory]
    /\ loss' = [loss EXCEPT ![w] = <<>>]
    /\ local_params' = [local_params EXCEPT ![w] = 0 - w]
    /\ local_grad' = [local_grad EXCEPT ![w] = NoGrad]
    /\ global_grad' = [global_grad EXCEPT ![w] = NoGrad]
    /\ opt_step' = [opt_step EXCEPT ![w] = 0]
    /\ ep_read' = [ep_read EXCEPT ![w] = 0]
    /\ rewards' = [rewards EXCEPT ![w] = <<>>]
    /\ UNCHANGED <<cfgvars, global_ep, global_params, exp_avg, mainvars,
                   printed, ghost>>

NextFail == Next \/ \E w \in Workers : Fail(w)

\* The runs in which a worker may fail, under fair scheduling of the
\* processes; a failure is never forced.
FailSpec == InitFair /\ [][NextFail]_vars /\ Fairness

\* ------------------------------------- calls on one ActorCritic alone
\* The model is worker 1's local_actor_critic, before the worker is started.
UnitObs == 0..MaxObs
UnitRewards == {0, 1}
UnitParams == 0..MaxParam

RememberCall ==
    /\ n_remember < MaxBuf
    /\ \E s \in UnitObs, a \in Actions, r \in UnitRewards, ns \in UnitObs :
          /\ mem' = [mem EXCEPT ![1] = remember(@, s, a, r, ns)]
          /\ call' = [op |-> "remember", args |-> <<s, a, r, ns>>]
    /\ n_remember' = n_remember + 1
    /\ UNCHANGED <<cfgvars, shared, mainvars, pc, t_step, envvars, loss, netvars,
                   ep_read, printed, rewards, episodes, increments, hist>>

ClearMemoryCall ==
    /\ mem' = [mem EXCEPT ![1] = clear_memory(@)]
    /\ call' = [op |-> "clear_memory"]
    /\ n_remember' = 0
    /\ UNCHANGED <<cfgvars, shared, mainvars, pc, t_step, envvars, loss, netvars,
                   ep_read, printed, rewards, episodes, increments, hist>>

UnitConfig == [cpu_count |-> 1, N_GAMES |-> 1, max_episode_steps |-> 1]

InitMem == InitWith(UnitConfig)
NextMem == RememberCall \/ ClearMemoryCall
SpecMem == InitMem /\ [][NextMem]_vars

\* calc_R(done) on a buffer of 1..T_MAX transitions, as Agent.run leaves it at
\* a synchronization point, with any rewards, next states, parameters and done.
Buffers ==
    UNION {{[states      |-> [i \in 1..L |-> 0],
             actions     |-> [i \in 1..L |-> 0],
             rewards     |-> rs,
             next_states |-> nss] :
               rs \in [1..L -> UnitRewards], nss \in [1..L -> UnitObs]} :
           L \in 1..T_MAX}

InitR ==
    \E m \in Buffers, p \in UnitParams, d \in BOOLEAN :
        /\ cpu_count = 1 /\ N_GAMES = 1 /\ max_episode_steps = 1
        /\ global_ep = 0 /\ ep_lock = NoOwner /\ global_params = 0 /\ exp_avg = 0
        /\ main_pc = "start" /\ main_i = 1
        /\ pc = [w \in Workers |-> IF w = 1 THEN "unstarted" ELSE "absent"]
        /\ t_step = [w \in Workers |-> 1]
        /\ done = [w \in Workers |-> IF w = 1 THEN d ELSE FALSE]
        /\ score = [w \in Workers |-> 0]
        /\ state = [w \in Workers |-> 0]
        /\ env_t = [w \in Workers |-> 0]
        /\ mem = [w \in Workers |-> IF w = 1 THEN m ELSE EmptyMemory]
        /\ loss = [w \in Workers |-> <<>>]
        /\ local_params = [w \in Workers |-> IF w = 1 THEN p ELSE 0 - w]
        /\ local_grad = [w \in Workers |-> NoGrad]
        /\ global_grad = [w \in Workers |-> NoGrad]
        /\ opt_step = [w \in Workers |-> 0]
        /\ ep_read = [w \in Workers |-> 0]
        /\ printed = [w \in Workers |-> 0]
        /\ rewards = [w \in Workers |-> <<>>]
        /\ call = [op |-> "none"]
        /\ n_remember = Len(m.rewards)
        /\ episodes = [w \in Workers |-> 0]
        /\ increments = [w \in Workers |-> 0]
    /\ n_buffered = [w \in Workers |-> 0]
    /\ n_used = [w \in Workers |-> 0]
    /\ applied = [w \in Workers |-> NoGrad]
    /\ own_count = [w \in Workers |-> 0]

CalcRCall ==
    /\ call.op = "none"
    /\ loss' = [loss EXCEPT ![1] = calc_R(mem[1], local_params[1], done[1])]
    /\ call' = [op |-> "calc_R", args |-> <<mem[1], local_params[1], done[1]>>]
    /\ UNCHANGED <<cfgvars, shared, mainvars, pc, t_step, envvars, mem, netvars,
                   ep_read, printed, rewards, n_remember, episodes, increments, hist>>

NextR == CalcRCall
SpecR == InitR /\ [][NextR]_vars

\* ------------------------------------------------------------ claims
Spawned == 1..cpu_count
AllTerminated == \A w \in Spawned : pc[w] = "terminated"

RECURSIVE SumTo(_, _)
SumTo(f, n) == IF n = 0 THEN 0 ELSE f[n] + SumTo(f, n - 1)

\* Between acquiring and releasing the counter's lock.
InCritical(w) == pc[w] \in {"incr_read", "incr_write", "release"}

\* From the first step of an episode to its report.
EpisodePcs ==
    {"step", "calc_loss", "zero_grad", "backward", "push", "opt_step", "pull",
     "clear", "acquire", "incr_read", "incr_write", "release", "print"}

\* C1: no lost updates. Once all workers have stopped, the counter equals its
\* initial value 0 plus the number of end-of-episode increments performed by
\* all workers, for every number of workers and every interleaving.
C1_NoLostUpdates ==
    AllTerminated => global_ep = SumTo(increments, MaxWorkers)

\* Two workers have stopped, each having incremented the counter.
C1_Witness ==
    /\ cpu_count = 2
    /\ AllTerminated
    /\ increments[1] >= 1
    /\ increments[2] >= 1

\* C2: mutual exclusion on the increment. A worker between acquiring and
\* releasing the counter's lock holds it, so at most one worker is there, and
\* the read and the write of the increment happen only there.
C2_MutualExclusion ==
    /\ \A w \in Workers : InCritical(w) => ep_lock = w
    /\ Cardinality({w \in Workers : InCritical(w)}) <= 1
    /\ \A w \in Workers : ep_lock = w => InCritical(w)

\* One worker is about to write the counter while another waits for the lock.
C2_Witness ==
    \E w, v \in Workers : pc[w] = "incr_write" /\ pc[v] = "acquire"

\* C3: the counter never decreases, and every change of it is an increase by
\* exactly 1 made by a worker's increment at the end of one of its episodes;
\* no other step (environment step, synchronization point, orchestrator)
\* changes it.
C3_MonotoneByOne ==
    [][global_ep' # global_ep =>
          /\ global_ep' = global_ep + 1
          /\ \E w \in Workers :
                /\ pc[w] = "incr_write" /\ pc'[w] = "release"
                /\ done[w]
                /\ ep_lock = w]_vars

\* The counter has been increased twice and a worker is stepping its environment.
C3_Witness ==
    /\ global_ep = 2
    /\ \E w \in Workers : pc[w] = "step" /\ env_t[w] >= 1

\* C4: a single worker with limit K runs exactly K episodes and stops with the
\* counter at K; it never starts episode K + 1.
C4_SingleWorkerRunsLimit ==
    cpu_count = 1 =>
        /\ episodes[1] <= N_GAMES
        /\ pc[1] \in {"plot", "terminated"} =>
              /\ global_ep = N_GAMES
              /\ episodes[1] = N_GAMES
              /\ Len(rewards[1]) = N_GAMES

\* The scenario: one worker, limit 1, stopped after one episode, counter at 1.
C4_Witness ==
    /\ cpu_count = 1 /\ N_GAMES = 1
    /\ pc[1] = "terminated"
    /\ global_ep = 1 /\ episodes[1] = 1

\* C5: a worker decides whether to continue only at an episode boundary. It
\* enters an episode only from the loop test and only when the counter, read
\* at that moment, is below the limit; it leaves the loop only from the loop
\* test; and once inside an episode it leaves it only through its own counter
\* increment and reward-log append, whatever the counter has become.
C5_StopOnlyAtBoundary ==
    [][\A w \in Workers :
          /\ (pc[w] \notin EpisodePcs /\ pc'[w] \in EpisodePcs) =>
                (pc[w] = "while" /\ global_ep < N_GAMES)
          /\ (pc[w] # "plot" /\ pc'[w] = "plot") => pc[w] = "while"
          /\ (pc[w] \in EpisodePcs /\ pc'[w] \notin EpisodePcs) =>
                /\ pc[w] = "print" /\ pc'[w] = "while"
                /\ Len(rewards'[w]) = Len(rewards[w]) + 1
                /\ Len(rewards'[w]) = episodes[w]
                /\ increments[w] = episodes[w]]_vars

\* A worker has finished an episode that it was inside when the counter
\* reached the limit: its increment took the counter past the limit.
C5_Witness ==
    /\ global_ep = N_GAMES + 1
    /\ \E w \in Workers : pc[w] = "while" /\ printed[w] = N_GAMES + 1

\* C9: the orchestrator starts every worker before it waits on any, and it is
\* finished only when every worker has terminated.
C9_JoinAfterAll ==
    /\ main_pc \in {"join", "done"} => \A w \in Spawned : pc[w] # "unstarted"
    /\ main_pc = "done" => AllTerminated

\* The orchestrator is finished with two workers spawned.
C9_Witness ==
    main_pc = "done" /\ cpu_count = 2

\* A fixed-point number rounded to two decimals, in hundredths.
Cents(x) == (x + Scale \div 200) \div (Scale \div 100)

\* C6: calc_R over L >= 1 buffered rewards returns exactly L returns in
\* forward order with R[L] = reward[L] + gamma * B for the bootstrap value B
\* and R[t] = reward[t] + gamma * R[t+1] for t < L (positions from 1); the
\* buffer is left as it was; and rewards [1,1,1,1,1] with B = 0 give
\* [4.90, 3.94, 2.97, 1.99, 1.00] to two decimals.
C6_ReturnsRecurrence ==
    call.op = "calc_R" =>
        LET m == call.args[1]
            L == Len(m.rewards)
            R == loss[1]
            B == bootstrap(m, call.args[2], call.args[3])
        IN  /\ DOMAIN R = 1..L
            /\ R[L] = m.rewards[L] * Scale + gamma_times(B)
            /\ \A t \in 1..(L - 1) : R[t] = m.rewards[t] * Scale + gamma_times(R[t + 1])
            /\ mem[1] = m
            /\ (m.rewards = <<1, 1, 1, 1, 1>> /\ B = 0) =>
                  [t \in 1..L |-> Cents(R[t])] = <<490, 394, 297, 199, 100>>

\* calc_R has returned on the scenario's buffer: five rewards of 1, done.
C6_Witness ==
    /\ call.op = "calc_R"
    /\ mem[1].rewards = <<1, 1, 1, 1, 1>>
    /\ done[1]
    /\ loss[1][1] = 4900995

\* C7: the bootstrap value calc_R uses is 0 when done is true, whatever the
\* value estimate of the last buffered next_state, and is the value estimate
\* of the last buffered next_state when done is false.
C7_BootstrapZeroWhenDone ==
    call.op = "calc_R" =>
        LET m == mem[1]
            L == Len(m.rewards)
            v_last == forward_v(local_params[1], m.next_states[L])
        IN  loss[1][L] = m.rewards[L] * Scale
                           + gamma_times(IF done[1] THEN 0 ELSE v_last)

\* calc_R has returned with done true on a buffer whose last next_state has a
\* non-zero value estimate and differs from the first one.
C7_Witness ==
    /\ call.op = "calc_R"
    /\ done[1]
    /\ Len(mem[1].next_states) >= 2
    /\ forward_v(local_params[1], mem[1].next_states[Len(mem[1].next_states)]) # 0
    /\ mem[1].next_states[1] # mem[1].next_states[Len(mem[1].next_states)]

MemLens(m) == <<Len(m.states), Len(m.actions), Len(m.rewards), Len(m.next_states)>>

\* C8: after any sequence of remember and clear_memory calls the four
\* sequences have the same length, the number of remember calls since the
\* last clear_memory; clear_memory leaves all four empty; and remember puts
\* its four arguments at the end of the four sequences, the rest unchanged.
C8_BufferLengths ==
    /\ [](MemLens(mem[1]) = <<n_remember, n_remember, n_remember, n_remember>>)
    /\ [][/\ n_remember' = n_remember + 1 =>
                /\ call'.op = "remember"
                /\ mem'[1].states = Append(mem[1].states, call'.args[1])
                /\ mem'[1].actions = Append(mem[1].actions, call'.args[2])
                /\ mem'[1].rewards = Append(mem[1].rewards, call'.args[3])
                /\ mem'[1].next_states = Append(mem[1].next_states, call'.args[4])
          /\ n_remember' # n_remember + 1 =>
                /\ call'.op = "clear_memory"
                /\ mem'[1] = EmptyMemory]_vars

\* remember has been called on a cleared buffer that had held transitions,
\* and then once more with different arguments.
C8_Witness ==
    /\ call.op = "remember"
    /\ mem[1] = [states |-> <<0, 1>>, actions |-> <<1, 0>>,
                 rewards |-> <<0, 1>>, next_states |-> <<1, 0>>]

\* C10: when every process is eventually scheduled (and every episode ends
\* within the environment's time limit) the counter reaches the limit, every
\* worker stops, and the orchestrator finishes; a worker waiting for the
\* counter's lock gets it.
C10_Termination ==
    /\ <>(main_pc = "done" /\ AllTerminated /\ global_ep >= N_GAMES)
    /\ \A w \in Workers : (pc[w] = "acquire") ~> (pc[w] = "incr_read")

\* The run has ended with two workers, after one of them had to wait: the
\* counter went past the limit.
C10_Witness ==
    /\ main_pc = "done"
    /\ cpu_count = 2
    /\ global_ep > N_GAMES

\* The buffer of worker w holds the last n transitions of its current episode.
LastOfEpisode(w) ==
    LET m == mem[w]
        n == Len(m.states)
    IN  /\ MemLens(m) = <<n, n, n, n>>
        /\ n <= env_t[w]
        /\ \A i \in 1..n :
              /\ m.next_states[i] = obs(env_t[w] - n + i)
              /\ m.states[i] = obs(env_t[w] - n + i - 1)
              /\ m.rewards[i] = step_reward
              /\ m.actions[i] \in Actions

\* C11: a worker's buffer never holds more than T_MAX transitions, all of
\* them of the worker's current episode, and the segment a loss is computed
\* over has between 1 and T_MAX transitions.
C11_BufferWithinHorizon ==
    \A w \in Workers :
        /\ Len(mem[w].states) <= T_MAX
        /\ LastOfEpisode(w)
        /\ pc[w] = "calc_loss" => Len(mem[w].states) \in 1..T_MAX

\* A loss is about to be computed over a full segment of T_MAX transitions.
C11_Witness ==
    \E w \in Workers : pc[w] = "calc_loss" /\ Len(mem[w].states) = T_MAX

\* C12: a synchronization point reached on a step that does not end the
\* episode processes exactly T_MAX transitions, in every episode of a worker.
C12_FullSegmentUnlessDone ==
    \A w \in Workers :
        (pc[w] = "calc_loss" /\ ~done[w]) => Len(mem[w].states) = T_MAX

\* The stages of a synchronization point, in the order of lines 166-182.
SyncOrder ==
    <<"calc_loss", "zero_grad", "backward", "push", "opt_step", "pull", "clear">>
SyncPcs == {SyncOrder[i] : i \in 1..Len(SyncOrder)}
PosInSync(p) == CHOOSE i \in 1..Len(SyncOrder) : SyncOrder[i] = p

\* Between the loss computation and the clear of a synchronization point.
AfterLoss(w) == pc[w] \in (SyncPcs \ {"calc_loss"})

\* C13: a worker's buffer is empty when an episode starts and right after
\* every synchronization point, and every transition put into the buffer is
\* part of the loss of exactly one synchronization point, the next one.
C13_EachTransitionUsedOnce ==
    \A w \in Workers :
        /\ (pc[w] = "step" /\ env_t[w] = 0) => mem[w] = EmptyMemory
        /\ pc[w] \notin (SyncPcs \cup {"step"}) => mem[w] = EmptyMemory
        /\ IF AfterLoss(w)
           THEN /\ n_used[w] = n_buffered[w]
                /\ Len(loss[w]) = Len(mem[w].states)
           ELSE n_used[w] + Len(mem[w].states) = n_buffered[w]

\* A worker is about to clear its buffer at a synchronization point that is
\* not its first and does not end the episode.
C13_Witness ==
    \E w \in Workers :
        /\ pc[w] = "clear"
        /\ ~done[w]
        /\ n_used[w] > Len(mem[w].states)

\* C14: the stages of a synchronization point happen in the order loss,
\* zeroing of the shared gradients, backward pass, gradient push, optimizer
\* step, parameter pull, clear; the worker takes no environment step and
\* chooses no action from the loss to the clear; and its local parameters
\* change only by its own pull.
C14_SyncOrder ==
    [][\A w \in Workers :
          /\ (pc[w] \in SyncPcs /\ pc'[w] # pc[w]) =>
                /\ pc'[w] = IF pc[w] = "clear"
                            THEN (IF done[w] THEN "acquire" ELSE "step")
                            ELSE SyncOrder[PosInSync(pc[w]) + 1]
                /\ pc[w] = "calc_loss" =>
                      loss'[w] = calc_R(mem[w], local_params[w], done[w])
                /\ pc[w] = "zero_grad" => global_grad'[w] \in {NoGrad, ZeroedGrad}
                /\ pc[w] = "backward" => local_grad'[w] = GradOf(w)
                /\ pc[w] = "push" => global_grad'[w] = local_grad[w]
                /\ pc[w] = "opt_step" =>
                      /\ global_params' = global_params + 1
                      /\ opt_step'[w] = opt_step[w] + 1
                /\ pc[w] = "pull" => local_params'[w] = global_params
                /\ pc[w] = "clear" => mem'[w] = EmptyMemory
          /\ pc[w] \in SyncPcs =>
                /\ env_t'[w] = env_t[w]
                /\ n_buffered'[w] = n_buffered[w]
                /\ pc[w] # "clear" => mem'[w] = mem[w]
          /\ local_params'[w] # local_params[w] => pc[w] = "pull"]_vars

\* A worker has pulled parameters that include another worker's update.
C14_Witness ==
    \E w \in Workers :
        /\ pc[w] = "clear"
        /\ applied[w] = GradOf(w)
        /\ local_params[w] = global_params
        /\ global_params > opt_step[w]

\* C15 (as stated): the gradient slot of the shared parameters is one slot
\* that racing workers write, so that what a worker has pushed or zeroed is
\* what another worker's optimizer step applies; with a single worker the
\* optimizer step applies the gradient that worker just copied.
C15_RacingPushesClobber ==
    /\ \A v, w \in Spawned : global_grad[v] = global_grad[w]
    /\ cpu_count = 1 => applied[1] \in {NoGrad, GradOf(1)}

\* C15 (amended): the push overwrites the gradient slot with the worker's
\* local gradient, and with any number of workers the optimizer step of a
\* worker applies exactly the gradient that worker just computed and copied,
\* never one written or zeroed by another worker.
C15_AppliesOwnGradient ==
    \A w \in Workers :
        /\ pc[w] = "opt_step" =>
              /\ global_grad[w] = local_grad[w]
              /\ global_grad[w] = GradOf(w)
        /\ applied[w] = IF opt_step[w] = 0 THEN NoGrad ELSE GradOf(w)

\* Two workers are at their optimizer steps at the same time, each after its
\* own push.
C15_Witness ==
    /\ cpu_count = 2
    /\ pc[1] = "opt_step" /\ pc[2] = "opt_step"
    /\ applied[1] = GradOf(1)

\* C16: the optimizer state, moments and step counter, is one instance shared
\* by all workers, zero at the start, and the state a worker's optimizer step
\* reads and updates reflects every optimizer step made so far by all
\* workers: its step counter is the total number of steps across workers.
C16_SharedOptimizerState ==
    \A w \in Spawned :
        /\ exp_avg = global_params
        /\ opt_step[w] = global_params

\* C17: the count a worker reports at the end of an episode is the value its
\* own increment gave the counter, so that the reports of two workers never
\* carry the same count: whenever a worker can read the counter for its
\* report, the counter holds the value of that worker's increment.
C17_ReportsOwnIncrement ==
    \A w \in Spawned :
        (pc[w] = "print" /\ lock_free_for(w)) => global_ep = own_count[w]

\* The lengths of the workers' reward logs.
LogLens == [w \in Workers |-> Len(rewards[w])]

\* C18: a worker's reward log changes only by that worker appending the
\* score of the episode it has just completed, after its counter increment,
\* one entry for each episode; once all workers have stopped the lengths of
\* the logs add up to the final counter value, and a worker's log holds only
\* entries of its own episodes.
C18_PrivateRewardLog ==
    /\ [][\A w \in Workers :
            rewards'[w] # rewards[w] =>
                /\ pc[w] = "print" /\ pc'[w] = "while"
                /\ rewards'[w] = Append(rewards[w], score[w])
                /\ score[w] = env_t[w] * step_reward
                /\ Len(rewards'[w]) = increments[w]
                /\ increments[w] = episodes[w]
                /\ \A v \in Workers \ {w} : rewards'[v] = rewards[v]]_vars
    /\ [](\A w \in Workers :
            /\ Len(rewards[w]) <= increments[w]
            /\ pc[w] \in {"while", "plot", "terminated"} =>
                  Len(rewards[w]) = episodes[w])
    /\ [](AllTerminated => SumTo(LogLens, MaxWorkers) = global_ep)

\* Two workers have stopped, each with a log of its own episodes, and the
\* logs differ.
C18_Witness ==
    /\ AllTerminated
    /\ cpu_count = 2
    /\ Len(rewards[1]) >= 1 /\ Len(rewards[2]) >= 1
    /\ rewards[1] # rewards[2]

\* C20: without failures the final counter value F is at least the limit and
\* at most the limit plus the number of workers minus 1, and the workers
\* have executed exactly F episodes in total.
C20_BoundedOvershoot ==
    AllTerminated =>
        /\ N_GAMES <= global_ep
        /\ global_ep <= N_GAMES + cpu_count - 1
        /\ SumTo(episodes, MaxWorkers) = global_ep

\* With more than one worker the counter has ended at the upper bound.
C20_Witness ==
    /\ AllTerminated
    /\ cpu_count > 1
    /\ N_GAMES = MaxGames
    /\ global_ep = N_GAMES + cpu_count - 1

\* C19: a failure of a worker in its loop ends that worker only, for good,
\* and does not leave the counter's lock held; the other workers still bring
\* the counter to the limit and terminate, and the orchestrator's joins,
\* that on the failed worker included, complete.
C19_FailureIsolated ==
    /\ [](\A w \in Workers : pc[w] = "failed" => ep_lock # w)
    /\ [][\A w \in Workers :
            /\ pc[w] = "failed" => pc'[w] = "failed"
            /\ (pc[w] # "failed" /\ pc'[w] = "failed") =>
                  /\ \A v \in Workers \ {w} : pc'[v] = pc[v]
                  /\ global_ep' = global_ep
                  /\ global_params' = global_params
                  /\ mainvars' = mainvars]_vars
    /\ <>[](/\ main_pc = "done"
            /\ \A w \in Spawned : pc[w] \in {"terminated", "failed"}
            /\ (\E w \in Spawned : pc[w] = "terminated") => global_ep >= N_GAMES)

\* The orchestrator is done after worker 1 failed in the middle of an episode
\* and worker 2 ran on to the limit.
C19_Witness ==
    /\ main_pc = "done"
    /\ cpu_count = 2
    /\ pc[1] = "failed" /\ increments[1] < episodes[1]
    /\ pc[2] = "terminated"
    /\ global_ep >= N_GAMES

=============================================================================
